---- MODULE Spec2Model ----
(***************************************************************************)
(* Master Controller for the Automated Wood Sorting System (v4): the       *)
(* polling loop  handleStepper(); checkIrSensor(); checkSerialCommands();  *)
(* with its debounced IR beam sensor, trigger / run-out state machine,     *)
(* stepper pulse generator, serial command dispatch and blocking servo     *)
(* gates.                                                                  *)
(*                                                                         *)
(* Time.  clock is the true time since boot in microseconds.  millis() and *)
(* micros() are the two free-running unsigned counters of the board, both  *)
(* TimerBits wide (32 on the board, narrower here so that a wrap is        *)
(* reached).  An iteration of loop() that dispatches no gate command takes *)
(* far less than a millisecond, so its handlers read the counters at one   *)
(* instant; time passes between two iterations (Tick) and inside delay().  *)
(* Under Spec and SpecRunOut the whole run is shorter than one period of   *)
(* millis(); under SpecWrap millis() wraps.                                *)
(***************************************************************************)
EXTENDS Integers, Sequences, FiniteSets, TLC

VARIABLES
    \* ---- environment
    clock,                  \* true time since boot, microseconds (never wraps)
    ticks,                  \* number of time steps taken so far
    rx,                     \* bytes waiting in the serial receive buffer
    sent,                   \* number of bytes the host has sent so far
    \* ---- program state (globals of the sketch)
    pc,                     \* which call of loop() runs next
    currentMode,
    lastStepTime,
    stepState,
    motorActiveForTrigger,
    inRunOutPhase,
    runOutStartTime,
    lastStableIrState,
    lastFlickerIrState,
    lastStateChangeTime,
    beamBrokenStartTime,
    beamIsBroken,
    lastStatusTime,         \* static local of handleStepper
    gateServo,              \* the gate activateServoGate is holding (0: none)
    \* ---- outputs
    servo,                  \* servo[i]: angle last written to gate i
    enaPin,                 \* STEPPER_ENA_PIN, "LOW" enables the driver
    stepPin,                \* STEPPER_STEP_PIN
    tx,                     \* lines printed by the handler that ran last
    \* ---- history (observers of the run, never read by the program)
    sampleRunStart,         \* true time of the first sample of the current run
                            \* of equal raw samples
    lastSampleAt,           \* true time of the latest sample
    scn,                    \* shape of the samples so far while the host is
                            \* silent: "start" (all HIGH), "low" (then all LOW),
                            \* "high" (then all HIGH), "off" (anything else)
    lowSpan,                \* ms between the first and last sample of the "low" run
    events,                 \* one entry <<transition, lines>> for every sample
                            \* that accepted a transition or printed "B" / "L:"
    lastAccept,             \* the latest accepted stable transition
    tInterrupted,           \* true ms of the latest accepted Interrupted (-1: none)
    tCleared,               \* true ms of the accepted Cleared that followed it (-1: none)
    armed,                  \* an Interrupted was accepted in TRIGGER mode and no
                            \* mode command was dispatched since
    abandoned,              \* "dispatched": 'X' was just dispatched during a
                            \* run-out; "evaluated": and handleStepper has just
                            \* run after it; "no" otherwise
    gateLeftAt,             \* true time at which the held gate left home (-1: none)
    lastHold,               \* microseconds the latest returned gate was away (-1: none)
    lastRead,               \* <<byte, bytes waiting>> of the Serial.read() of the
                            \* iteration that just ended (<<>>: it read nothing)
    tFlip                   \* true time of the latest flip of stepState (-1: none)

progVars == <<pc, currentMode, lastStepTime, stepState, motorActiveForTrigger,
              inRunOutPhase, runOutStartTime, lastStableIrState,
              lastFlickerIrState, lastStateChangeTime, beamBrokenStartTime,
              beamIsBroken, lastStatusTime, gateServo>>
outVars == <<servo, enaPin, stepPin, tx>>
envVars == <<clock, ticks, rx, sent>>
histVars == <<sampleRunStart, lastSampleAt, scn, lowSpan, events, lastAccept,
              tInterrupted, tCleared, armed, abandoned, gateLeftAt, lastHold,
              lastRead, tFlip>>
vars == <<envVars, progVars, outVars, histVars>>

----------------------------------------------------------------------------
(* Program constants *)

stepInterval == 500         \* microseconds
runOutDuration == 7000      \* milliseconds
debounceDelay == 50         \* milliseconds
statusInterval == 1000      \* milliseconds
holdDuration == 1000        \* milliseconds
angle1 == 45
angle2 == 90
angle3 == 135
homeAngle == 0

(* Bounds of the model *)

TimerBits == 16             \* width of millis() and micros()
MaxTicks == 3               \* time steps between handlers in one run
MaxSent == 2                \* bytes the host sends in one run

TimerWrap == 2 ^ TimerBits
UsPerMs == 1000
nowMs == clock \div UsPerMs      \* true time in ms, never wraps

\* Time that passes between two iterations of loop(), in microseconds: the
\* debounce delay exactly and just exceeded; the latter and the run-out; the
\* latter and half a period of millis(); the latter alone; the step interval
\* just missed and exactly; the run-out alone.
SensorDeltas == {debounceDelay * UsPerMs, (debounceDelay + 1) * UsPerMs}
RunOutDeltas == {(debounceDelay + 1) * UsPerMs, runOutDuration * UsPerMs}
WrapDeltas == {(debounceDelay + 1) * UsPerMs, (TimerWrap \div 2) * UsPerMs}
SerialDeltas == {(debounceDelay + 1) * UsPerMs}
StepDeltas == {stepInterval - 1, stepInterval}
LiveDeltas == {runOutDuration * UsPerMs}

Modes == {"IDLE", "CONTINUOUS", "TRIGGER"}
Levels == {"LOW", "HIGH"}
Bytes == {"1", "2", "3", "C", "T", "X", "Z"}
\* The bytes the host sends where the timing is examined: the three gate
\* commands share activateServoGate and are represented there by gate 1, and
\* a byte that is no command changes nothing.
LongRunBytes == Bytes \ {"2", "3", "Z"}
\* The bytes the host sends where the wrap of the counters is examined: a
\* gate command and the two commands that let the motor run.
WrapBytes == {"1", "C", "T"}
\* The bytes the host sends where the end of the run-out is examined.
LiveBytes == {"1", "T", "X"}
\* The bytes the host sends where the dispatch itself is examined: the
\* commands, and bytes that are none, the lower-case letters among them.
SerialBytes == Bytes \cup {"c", "t", "x"}

----------------------------------------------------------------------------
(* The board's counters and unsigned arithmetic *)

millis == (clock \div UsPerMs) % TimerWrap
micros == clock % TimerWrap

\* (variant) the difference taken as a signed number
USubSigned(a, b) == a - b

\* unsigned long subtraction  a - b
USub(a, b) == (a - b + TimerWrap) % TimerWrap

----------------------------------------------------------------------------
(* Serial output lines: <<text, number>> *)

LineBoot == <<"Master Controller V4 Initialized. Mode: IDLE", 0>>
LineB == <<"B", 0>>
LineL(duration) == <<"L:", duration>>
LineMode(mode) ==
    CASE mode = "CONTINUOUS" -> <<"Mode: CONTINUOUS", 0>>
      [] mode = "TRIGGER" -> <<"Mode: TRIGGER", 0>>
      [] mode = "IDLE" -> <<"Mode: IDLE (Stopped)", 0>>
LineStatus(mode, active) ==
    <<"Mode: " \o mode \o " | Motor Active: " \o (IF active THEN "YES" ELSE "NO"), 0>>

----------------------------------------------------------------------------
Init ==
    /\ clock = 0
    /\ ticks = 0
    /\ rx = <<>>
    /\ sent = 0
    /\ pc = "handleStepper"
    /\ currentMode = "IDLE"
    /\ lastStepTime = 0
    /\ stepState = FALSE
    /\ motorActiveForTrigger = FALSE
    /\ inRunOutPhase = FALSE
    /\ runOutStartTime = 0
    /\ lastStableIrState = "HIGH"
    /\ lastFlickerIrState = "HIGH"
    /\ lastStateChangeTime = 0
    /\ beamBrokenStartTime = 0
    /\ beamIsBroken = FALSE
    /\ lastStatusTime = 0
    /\ gateServo = 0
    /\ servo = [i \in 1..3 |-> homeAngle]
    /\ enaPin = "HIGH"
    /\ stepPin = "LOW"
    /\ tx = <<LineBoot>>
    /\ sampleRunStart = 0
    /\ lastSampleAt = 0
    /\ scn = "start"
    /\ lowSpan = 0
    /\ events = <<>>
    /\ lastAccept = "none"
    /\ tInterrupted = -1
    /\ tCleared = -1
    /\ armed = FALSE
    /\ abandoned = "no"
    /\ gateLeftAt = -1
    /\ lastHold = -1
    /\ lastRead = <<>>
    /\ tFlip = -1

----------------------------------------------------------------------------
(* Environment *)

\* Time passes between two iterations of loop().  One iteration without a
\* gate command takes far less than a millisecond: its handlers read the same
\* millis().
Tick(d) ==
    /\ pc = "handleStepper"
    /\ ticks < MaxTicks
    /\ clock' = clock + d
    /\ ticks' = ticks + 1
    /\ UNCHANGED <<rx, sent, progVars, outVars, histVars>>

\* Time passes, however much has passed before, while a run-out is in
\* progress and not yet due to end.
RunOutTick(d) ==
    /\ pc = "handleStepper"
    /\ currentMode = "TRIGGER"
    /\ inRunOutPhase
    /\ nowMs - tCleared < runOutDuration
    /\ clock' = clock + d
    /\ UNCHANGED <<ticks, rx, sent, progVars, outVars, histVars>>

\* The host writes one byte to the serial line.  Only checkSerialCommands
\* reads the buffer, so a byte that arrives earlier in the iteration is the
\* same as one that arrives right before the poll.
HostSend(b) ==
    /\ pc \in {"checkSerialCommands", "delay"}
    /\ sent < MaxSent
    /\ rx' = Append(rx, b)
    /\ sent' = sent + 1
    /\ scn' = "off"
    /\ lowSpan' = 0
    /\ UNCHANGED <<clock, ticks, progVars, outVars>>
    /\ UNCHANGED <<sampleRunStart, lastSampleAt, events, lastAccept,
                   tInterrupted, tCleared, armed, abandoned, gateLeftAt,
                   lastHold, lastRead, tFlip>>

----------------------------------------------------------------------------
(* loop *)

\* (variant) the sensor is polled before the stepper is handled
NextCallSensorFirst(call) ==
    CASE call = "checkIrSensor" -> "handleStepper"
      [] call = "handleStepper" -> "checkSerialCommands"
      [] call = "checkSerialCommands" -> "checkIrSensor"

\* the call of loop() that follows a call; after the last, loop() is entered
\* again
NextCall(call) ==
    CASE call = "handleStepper" -> "checkIrSensor"
      [] call = "checkIrSensor" -> "checkSerialCommands"
      [] call = "checkSerialCommands" -> "handleStepper"

----------------------------------------------------------------------------
(* handleStepper *)

\* (variant) the window is never found expired
RunOutExpiredNever(now, start) == FALSE

\* (variant) the run-out ends only once more than runOutDuration has passed
RunOutExpiredLate(now, start) == USub(now, start) > runOutDuration

\* the run-out window has expired
RunOutExpired(now, start) == ~(USub(now, start) < runOutDuration)

\* (variant) the expiry branch leaves the motor running for one evaluation
ShouldBeActiveNoExpiry(mode, runOut, motorActive, now, start) ==
    CASE mode = "CONTINUOUS" -> TRUE
      [] mode = "TRIGGER" -> runOut \/ motorActive
      [] OTHER -> FALSE

\* shouldBeActive as handleStepper computes it
ShouldBeActive(mode, runOut, motorActive, now, start) ==
    CASE mode = "CONTINUOUS" -> TRUE
      [] mode = "TRIGGER" ->
            IF runOut THEN ~RunOutExpired(now, start) ELSE motorActive
      [] OTHER -> FALSE

\* (variant) the enable line driven active-high
EnaLevelInverted(shouldBeActive) == IF shouldBeActive THEN "HIGH" ELSE "LOW"

\* the level written to STEPPER_ENA_PIN (the driver is enabled by LOW)
EnaLevel(shouldBeActive) == IF shouldBeActive THEN "LOW" ELSE "HIGH"

\* (variant) the step line is toggled by every evaluation
StepDueAlways(now, last) == TRUE

\* a step pulse is due
StepDue(now, last) == USub(now, last) >= stepInterval

PrintStatus(now, last) == USub(now, last) > statusInterval

HandleStepper ==
    /\ pc = "handleStepper"
    /\ LET printStatus == PrintStatus(millis, lastStatusTime)
           expired == /\ currentMode = "TRIGGER"
                      /\ inRunOutPhase
                      /\ RunOutExpired(millis, runOutStartTime)
           shouldBeActive == ShouldBeActive(currentMode, inRunOutPhase,
                                 motorActiveForTrigger, millis, runOutStartTime)
           pulse == shouldBeActive /\ StepDue(micros, lastStepTime)
       IN  /\ lastStatusTime' = IF printStatus THEN millis ELSE lastStatusTime
           /\ inRunOutPhase' = IF expired THEN FALSE ELSE inRunOutPhase
           /\ motorActiveForTrigger' =
                  IF expired THEN FALSE ELSE motorActiveForTrigger
           /\ enaPin' = EnaLevel(shouldBeActive)
           /\ lastStepTime' = IF pulse THEN micros ELSE lastStepTime
           /\ stepState' = IF pulse THEN ~stepState ELSE stepState
           /\ stepPin' = IF pulse
                         THEN (IF ~stepState THEN "HIGH" ELSE "LOW")
                         ELSE stepPin
           /\ tx' = IF printStatus
                    THEN <<LineStatus(currentMode, shouldBeActive)>>
                    ELSE <<>>
    /\ pc' = NextCall(pc)
    /\ abandoned' = IF abandoned = "dispatched" THEN "evaluated" ELSE "no"
    /\ lastRead' = <<>>
    /\ tFlip' = IF stepState' # stepState THEN clock ELSE tFlip
    /\ UNCHANGED <<clock, ticks, rx, sent, currentMode, runOutStartTime,
                   lastStableIrState, lastFlickerIrState, lastStateChangeTime,
                   beamBrokenStartTime, beamIsBroken, gateServo, servo>>
    /\ UNCHANGED <<sampleRunStart, lastSampleAt, scn, lowSpan, events,
                   lastAccept, tInterrupted, tCleared, armed, gateLeftAt,
                   lastHold>>

----------------------------------------------------------------------------
(* checkIrSensor *)

\* the reading has been stable for the debounce delay
DebounceElapsed(now, last) == USub(now, last) > debounceDelay

\* (variant) the debounce timer is not restarted by a changed reading
FlickerTimeNoReset(currentIrState, flicker, now, last) == last

\* lastStateChangeTime after the flicker test of lines 129-131
FlickerTime(currentIrState, flicker, now, last) ==
    IF currentIrState # flicker THEN now ELSE last

\* (variant) the reading is not compared with the stable state
AcceptedAnyLevel(currentIrState, stable, now, changeTime) ==
    DebounceElapsed(now, changeTime)

\* the stable state changes: the reading outlasted the debounce delay and
\* differs from the stable state
Accepted(currentIrState, stable, now, changeTime) ==
    /\ DebounceElapsed(now, changeTime)
    /\ currentIrState # stable

\* (variant) the beam is timed from the first LOW reading
BrokenStartAtFlicker(now, changeTime) == changeTime

\* beamBrokenStartTime at a Beam Broken event
BrokenStart(now, changeTime) == now

\* (variant) the flag is not reset by a Beam Cleared event
BeamFlagNeverCleared(broken, cleared, flag) == broken \/ flag

\* beamIsBroken after the sample
BeamFlag(broken, cleared, flag) ==
    IF broken THEN TRUE
    ELSE IF cleared /\ flag THEN FALSE ELSE flag

\* (variant) the Beam Cleared branch starts no run-out
StartsRunOutNever(cleared, mode, motorActive) == FALSE

\* (variant) the run-out starts in every mode
StartsRunOutAnyMode(cleared, mode, motorActive) == cleared /\ motorActive

\* (variant) the run-out starts whether or not the motor was requested
StartsRunOutAnyMotor(cleared, mode, motorActive) ==
    cleared /\ mode = "TRIGGER"

\* a Beam Cleared event starts a run-out
StartsRunOut(cleared, mode, motorActive) ==
    cleared /\ mode = "TRIGGER" /\ motorActive

\* (variant) a Beam Broken event leaves the run-out in progress
RunOutAfterSampleKept(brokenInTrigger, startRunOut, runOut) ==
    IF startRunOut THEN TRUE ELSE runOut

\* inRunOutPhase after the sample: a Beam Broken event in TRIGGER mode
\* cancels the run-out, a Beam Cleared event of a running motor starts one
RunOutAfterSample(brokenInTrigger, startRunOut, runOut) ==
    IF brokenInTrigger THEN FALSE
    ELSE IF startRunOut THEN TRUE ELSE runOut

\* the "B" and "L:" lines among the printed lines
SensorLines(lines) == SelectSeq(lines, LAMBDA l : l[1] \in {"B", "L:"})

\* History of the samples and of the accepted transitions.
ObserveSample(currentIrState, accepted) ==
    LET flip == currentIrState # lastFlickerIrState
        scnNext == CASE scn = "start" /\ currentIrState = "LOW" -> "low"
                     [] scn = "low" /\ currentIrState = "HIGH" -> "high"
                     [] scn = "high" /\ currentIrState = "LOW" -> "off"
                     [] OTHER -> scn
        kind == IF ~accepted THEN "none"
                ELSE IF currentIrState = "LOW" THEN "Interrupted" ELSE "Cleared"
    IN  /\ sampleRunStart' = IF flip THEN clock ELSE sampleRunStart
        /\ lastSampleAt' = clock
        /\ scn' = scnNext
        /\ lowSpan' = IF scnNext = "low"
                      THEN nowMs - (sampleRunStart' \div UsPerMs) ELSE lowSpan
        /\ events' = IF accepted \/ SensorLines(tx') # <<>>
                     THEN Append(events, <<kind, SensorLines(tx')>>)
                     ELSE events
        /\ lastAccept' = IF accepted THEN kind ELSE lastAccept
        /\ tInterrupted' = IF accepted /\ currentIrState = "LOW"
                           THEN nowMs ELSE tInterrupted
        /\ tCleared' = IF ~accepted THEN tCleared
                       ELSE IF currentIrState = "LOW" THEN -1 ELSE nowMs
        /\ armed' = IF accepted /\ currentIrState = "LOW"
                    THEN currentMode = "TRIGGER" ELSE armed
        /\ abandoned' = "no"
        /\ UNCHANGED <<gateLeftAt, lastHold, lastRead, tFlip>>

CheckIrSensor(currentIrState) ==
    /\ pc = "checkIrSensor"
    /\ LET changeTime == FlickerTime(currentIrState, lastFlickerIrState,
                                     millis, lastStateChangeTime)
           accepted == Accepted(currentIrState, lastStableIrState,
                                millis, changeTime)
           broken == accepted /\ currentIrState = "LOW"
           cleared == accepted /\ currentIrState # "LOW"
           startRunOut == StartsRunOut(cleared, currentMode,
                                       motorActiveForTrigger)
       IN  /\ lastStateChangeTime' = changeTime
           /\ lastFlickerIrState' = currentIrState
           /\ lastStableIrState' =
                  IF accepted THEN currentIrState ELSE lastStableIrState
           /\ beamBrokenStartTime' =
                  IF broken THEN BrokenStart(millis, changeTime)
                  ELSE beamBrokenStartTime
           /\ beamIsBroken' = BeamFlag(broken, cleared, beamIsBroken)
           /\ motorActiveForTrigger' =
                  IF broken /\ currentMode = "TRIGGER"
                  THEN TRUE ELSE motorActiveForTrigger
           /\ inRunOutPhase' =
                  RunOutAfterSample(broken /\ currentMode = "TRIGGER",
                                    startRunOut, inRunOutPhase)
           /\ runOutStartTime' =
                  IF startRunOut THEN millis ELSE runOutStartTime
           /\ tx' = IF broken THEN <<LineB>>
                    ELSE IF cleared /\ beamIsBroken
                         THEN <<LineL(USub(millis, beamBrokenStartTime))>>
                         ELSE <<>>
           /\ ObserveSample(currentIrState, accepted)
    /\ pc' = NextCall(pc)
    /\ UNCHANGED <<clock, ticks, rx, sent, currentMode, lastStepTime, stepState,
                   lastStatusTime, gateServo, servo, enaPin, stepPin>>

----------------------------------------------------------------------------
(* checkSerialCommands and activateServoGate *)

\* (variant) the switch has no case '3'
GateOfNoThird(command) ==
    CASE command = "1" -> 1
      [] command = "2" -> 2
      [] OTHER -> 0

\* the gate a command byte actuates (0: none)
GateOf(command) ==
    CASE command = "1" -> 1
      [] command = "2" -> 2
      [] command = "3" -> 3
      [] OTHER -> 0

\* (variant) the angles of gates 2 and 3 exchanged
AngleOfExchanged(command) ==
    CASE command = "1" -> angle1
      [] command = "2" -> angle3
      [] command = "3" -> angle2
      [] OTHER -> homeAngle

AngleOf(command) ==
    CASE command = "1" -> angle1
      [] command = "2" -> angle2
      [] command = "3" -> angle3
      [] OTHER -> homeAngle

\* (variant) the switch has a default case that stops the conveyor
ModeOfDefaultIdle(command) ==
    CASE command = "C" -> "CONTINUOUS"
      [] command = "T" -> "TRIGGER"
      [] command \in {"1", "2", "3"} -> "NONE"
      [] OTHER -> "IDLE"

\* (variant) case 'T' falls through to case 'X'
ModeOfFallThrough(command) ==
    CASE command = "C" -> "CONTINUOUS"
      [] command = "T" -> "IDLE"
      [] command = "X" -> "IDLE"
      [] OTHER -> "NONE"

ModeOf(command) ==
    CASE command = "C" -> "CONTINUOUS"
      [] command = "T" -> "TRIGGER"
      [] command = "X" -> "IDLE"
      [] OTHER -> "NONE"

\* (variant) only 'X' resets the trigger state
ResetsTriggerOnlyX(command) == command = "X"

\* the mode commands that reset the trigger state
ResetsTrigger(command) == command \in {"T", "X"}

\* (variant) the gate is moved and the loop goes on
BlocksNever(command) == FALSE

\* the dispatch of the command calls delay()
Blocks(command) == GateOf(command) # 0

\* (variant) the receive buffer is emptied by the read
RemainingNone(queue) == <<>>

\* the receive buffer after one Serial.read()
Remaining(queue) == Tail(queue)

\* Serial.available() == 0: nothing to do
SerialIdle ==
    /\ pc = "checkSerialCommands"
    /\ rx = <<>>
    /\ pc' = NextCall(pc)
    /\ tx' = <<>>
    /\ UNCHANGED <<clock, ticks, rx, sent, currentMode, lastStepTime, stepState,
                   motorActiveForTrigger, inRunOutPhase, runOutStartTime,
                   lastStableIrState, lastFlickerIrState, lastStateChangeTime,
                   beamBrokenStartTime, beamIsBroken, lastStatusTime,
                   gateServo, servo, enaPin, stepPin>>
    /\ lastRead' = <<>>
    /\ UNCHANGED <<sampleRunStart, lastSampleAt, scn, lowSpan, events,
                   lastAccept, tInterrupted, tCleared, armed, abandoned,
                   gateLeftAt, lastHold, tFlip>>

\* one byte is read and dispatched
CheckSerialCommands ==
    /\ pc = "checkSerialCommands"
    /\ rx # <<>>
    /\ LET command == Head(rx)
       IN  /\ rx' = Remaining(rx)
           /\ pc' = IF Blocks(command) THEN "delay" ELSE NextCall(pc)
           /\ lastRead' = <<command, Len(rx)>>
           /\ IF GateOf(command) # 0
              THEN \* activateServoGate: gateServo.write(angle), then delay()
                   /\ servo' = [servo EXCEPT ![GateOf(command)] = AngleOf(command)]
                   /\ gateServo' = GateOf(command)
                   /\ tx' = <<>>
                   /\ UNCHANGED <<currentMode, motorActiveForTrigger,
                                  inRunOutPhase>>
              ELSE /\ currentMode' = IF ModeOf(command) # "NONE"
                                     THEN ModeOf(command) ELSE currentMode
                   /\ motorActiveForTrigger' =
                          IF ResetsTrigger(command)
                          THEN FALSE ELSE motorActiveForTrigger
                   /\ inRunOutPhase' =
                          IF ResetsTrigger(command)
                          THEN FALSE ELSE inRunOutPhase
                   /\ tx' = IF ModeOf(command) # "NONE"
                            THEN <<LineMode(ModeOf(command))>> ELSE <<>>
                   /\ UNCHANGED <<servo, gateServo>>
           /\ armed' = IF ModeOf(command) # "NONE" THEN FALSE ELSE armed
           /\ abandoned' = IF /\ command = "X"
                              /\ currentMode = "TRIGGER"
                              /\ inRunOutPhase
                           THEN "dispatched" ELSE "no"
           /\ gateLeftAt' = IF GateOf(command) # 0 THEN clock ELSE gateLeftAt
    /\ UNCHANGED <<clock, ticks, sent, lastStepTime, stepState, runOutStartTime,
                   lastStableIrState, lastFlickerIrState, lastStateChangeTime,
                   beamBrokenStartTime, beamIsBroken, lastStatusTime,
                   enaPin, stepPin>>
    /\ UNCHANGED <<sampleRunStart, lastSampleAt, scn, lowSpan, events,
                   lastAccept, tInterrupted, tCleared, lastHold, tFlip>>

\* delay(1000) returns and the gate is written back to its home angle
ActivateServoGateReturn ==
    /\ pc = "delay"
    /\ clock' = clock + holdDuration * UsPerMs
    /\ servo' = [servo EXCEPT ![gateServo] = homeAngle]
    /\ gateServo' = 0
    /\ pc' = NextCall("checkSerialCommands")
    /\ tx' = <<>>
    /\ UNCHANGED <<ticks, rx, sent, currentMode, lastStepTime, stepState,
                   motorActiveForTrigger, inRunOutPhase, runOutStartTime,
                   lastStableIrState, lastFlickerIrState, lastStateChangeTime,
                   beamBrokenStartTime, beamIsBroken, lastStatusTime,
                   enaPin, stepPin>>
    /\ gateLeftAt' = -1
    /\ lastHold' = clock' - gateLeftAt
    /\ UNCHANGED <<sampleRunStart, lastSampleAt, scn, lowSpan, events,
                   lastAccept, tInterrupted, tCleared, armed, abandoned,
                   lastRead, tFlip>>

----------------------------------------------------------------------------
\* one step of the program
Step ==
    \/ HandleStepper
    \/ \E level \in Levels : CheckIrSensor(level)
    \/ SerialIdle
    \/ CheckSerialCommands
    \/ ActivateServoGateReturn

\* Time at the scale of the debounce delay.
Next ==
    \/ \E d \in SensorDeltas : Tick(d)
    \/ \E b \in LongRunBytes : HostSend(b)
    \/ Step

Spec == Init /\ [][Next]_vars

\* Time at the scale of the run-out.
NextRunOut ==
    \/ \E d \in RunOutDeltas : Tick(d)
    \/ \E b \in LongRunBytes : HostSend(b)
    \/ Step

SpecRunOut == Init /\ [][NextRunOut]_vars

\* Time at the scale of the period of millis().
NextWrap ==
    \/ \E d \in WrapDeltas : Tick(d)
    \/ \E b \in WrapBytes : HostSend(b)
    \/ Step

SpecWrap == Init /\ [][NextWrap]_vars

\* Any byte on the serial line; time in steps that let the sensor accept.
NextSerial ==
    \/ \E d \in SerialDeltas : Tick(d)
    \/ \E b \in SerialBytes : HostSend(b)
    \/ Step

SpecSerial == Init /\ [][NextSerial]_vars

\* Time at the scale of the step interval.
NextStep ==
    \/ \E d \in StepDeltas : Tick(d)
    \/ \E b \in LongRunBytes : HostSend(b)
    \/ Step

SpecStep == Init /\ [][NextStep]_vars

\* The loop keeps iterating and time keeps passing during a run-out.
NextLive ==
    \/ \E d \in LiveDeltas : Tick(d)
    \/ \E d \in LiveDeltas : RunOutTick(d)
    \/ \E b \in LiveBytes : HostSend(b)
    \/ Step

SpecLive ==
    /\ Init
    /\ [][NextLive]_vars
    /\ WF_vars(Step)
    /\ SF_vars(\E d \in LiveDeltas : RunOutTick(d))

TypeOK ==
    /\ clock \in Nat
    /\ pc \in {"handleStepper", "checkIrSensor", "checkSerialCommands", "delay"}
    /\ currentMode \in Modes
    /\ lastStableIrState \in Levels
    /\ lastFlickerIrState \in Levels
    /\ gateServo \in 0..3

----------------------------------------------------------------------------
(* Steps of the handlers, as seen from outside *)

StepperRan == pc = "handleStepper" /\ pc' = "checkIrSensor"
SensorRan == pc = "checkIrSensor" /\ pc' = "checkSerialCommands"
Dispatched(command) ==
    /\ pc = "checkSerialCommands"
    /\ pc' # pc
    /\ rx # <<>>
    /\ Head(rx) = command

\* the text of the "B" / "L:" lines printed so far, in order
EventLines == [i \in 1..Len(events) |->
                  IF events[i][2] = <<>> THEN "" ELSE events[i][2][1][1]]

\* ms between the first and the latest sample of the current run of samples
runSpan == (lastSampleAt \div UsPerMs) - (sampleRunStart \div UsPerMs)

----------------------------------------------------------------------------
(* C1: debounce safety.  The stable state changes, and a "B" or "L:" line  *)
(* is printed, only by a sample whose level equals every sample taken      *)
(* during at least debounceDelay before it; so a run of samples of the     *)
(* other level that is shorter than debounceDelay changes nothing and      *)
(* prints nothing.                                                         *)
C1_DebounceSafety ==
    [][ (SensorRan /\ (\/ lastStableIrState' # lastStableIrState
                       \/ SensorLines(tx') # <<>>))
        => /\ lastFlickerIrState' = lastStableIrState'
           /\ lastSampleAt' - sampleRunStart' >= debounceDelay * UsPerMs
           /\ lastSampleAt' = clock ]_vars

\* a Beam Broken event was just accepted, after a run of LOW samples
C1_Witness ==
    /\ pc = "checkSerialCommands"
    /\ tx = <<LineB>>
    /\ lastStableIrState = "LOW"
    /\ runSpan > debounceDelay

----------------------------------------------------------------------------
(* C2 as stated: from boot, with the host silent, LOW samples spanning at  *)
(* least debounceDelay followed by HIGH samples spanning at least          *)
(* debounceDelay print exactly one "B" and then exactly one "L:".          *)
C2_AsStated ==
    (scn = "high" /\ lowSpan >= debounceDelay /\ runSpan >= debounceDelay)
        => EventLines = <<"B", "L:">>

(* C2 amended: the same with both spans longer than debounceDelay (the     *)
(* test of checkIrSensor is strict).                                       *)
C2_LowThenHigh ==
    (scn = "high" /\ lowSpan > debounceDelay /\ runSpan > debounceDelay)
        => EventLines = <<"B", "L:">>

C2_Witness ==
    /\ scn = "high"
    /\ lowSpan = debounceDelay + 1
    /\ runSpan = debounceDelay + 1
    /\ EventLines = <<"B", "L:">>

----------------------------------------------------------------------------
(* C8: beamIsBroken holds exactly when the latest accepted transition is   *)
(* Interrupted, that is when lastStableIrState is LOW; the accepted        *)
(* transitions alternate Interrupted, Cleared, ... and each prints its one *)
(* line: "B" for Interrupted, "L:" for Cleared, and nothing else prints    *)
(* such a line.                                                            *)
C8_BeamFlag ==
    /\ beamIsBroken <=> (lastAccept = "Interrupted")
    /\ beamIsBroken <=> (lastStableIrState = "LOW")
    /\ \A i \in 1..Len(events) :
          IF i % 2 = 1
          THEN events[i] = <<"Interrupted", <<LineB>>>>
          ELSE /\ events[i][1] = "Cleared"
               /\ Len(events[i][2]) = 1
               /\ events[i][2][1][1] = "L:"

\* a second object has arrived: B, L:, B
C8_Witness ==
    /\ Len(events) = 3
    /\ beamIsBroken

----------------------------------------------------------------------------
(* C9: the number in an "L:" line is the time (in ms) of the accepted      *)
(* Cleared transition minus the time of the accepted Interrupted           *)
(* transition before it, modulo the width of the counter.                  *)
C9_Duration ==
    (pc = "checkSerialCommands" /\ SensorLines(tx) # <<>> /\ tx[1][1] = "L:")
        => /\ tInterrupted >= 0
           /\ tCleared = nowMs
           /\ tx = <<LineL((tCleared - tInterrupted) % TimerWrap)>>

\* an "L:" line for a beam that stayed broken through a gate hold and through
\* the wrap of millis()
C9_Witness ==
    /\ pc = "checkSerialCommands"
    /\ tx # <<>>
    /\ tx[1][1] = "L:"
    /\ tInterrupted < TimerWrap
    /\ tCleared >= TimerWrap
    /\ lastHold > 0
    /\ millis < beamBrokenStartTime

----------------------------------------------------------------------------
(* C3: in TRIGGER mode, once an Interrupted event is accepted and while no *)
(* mode command is dispatched, every evaluation of handleStepper enables   *)
(* the motor until runOutDuration has passed since the accepted Cleared    *)
(* event that follows, and disables it from the first evaluation after.    *)
C3_RunUntilRunOut ==
    (pc = "checkIrSensor" /\ armed)
        => ((enaPin = "LOW")
                <=> (tCleared = -1 \/ nowMs - tCleared < runOutDuration))

\* the run-out of an object that stayed in the beam through a gate hold expired
C3_Witness ==
    /\ pc = "checkIrSensor"
    /\ armed
    /\ tCleared - tInterrupted > holdDuration
    /\ nowMs - tCleared >= runOutDuration
    /\ enaPin = "HIGH"

----------------------------------------------------------------------------
(* C4: after every evaluation of handleStepper the enable line is active   *)
(* exactly when shouldRun holds: always in CONTINUOUS, never in IDLE, and  *)
(* in TRIGGER when motorActiveForTrigger or inRunOutPhase holds after the  *)
(* run-out expiry check.                                                   *)
ShouldRunAfter ==
    CASE currentMode = "CONTINUOUS" -> TRUE
      [] currentMode = "TRIGGER" -> motorActiveForTrigger \/ inRunOutPhase
      [] currentMode = "IDLE" -> FALSE

C4_EnableLine ==
    (pc = "checkIrSensor") => ((enaPin = "LOW") <=> ShouldRunAfter)

\* the evaluation that ended a run-out: the line went inactive with it
C4_Witness ==
    /\ pc = "checkIrSensor"
    /\ currentMode = "TRIGGER"
    /\ armed
    /\ tCleared >= 0
    /\ ~inRunOutPhase
    /\ enaPin = "HIGH"

----------------------------------------------------------------------------
(* C5: currentMode is IDLE at boot and changes only when a 'C', 'T' or 'X' *)
(* is dispatched; such a dispatch sets CONTINUOUS, TRIGGER, IDLE           *)
(* respectively, from any mode, and prints the confirmation line.          *)
C5_ModeOwnership ==
    /\ currentMode = "IDLE"
    /\ [][ /\ currentMode' # currentMode
              => Dispatched("C") \/ Dispatched("T") \/ Dispatched("X")
           /\ Dispatched("C")
              => currentMode' = "CONTINUOUS" /\ tx' = <<<<"Mode: CONTINUOUS", 0>>>>
           /\ Dispatched("T")
              => currentMode' = "TRIGGER" /\ tx' = <<<<"Mode: TRIGGER", 0>>>>
           /\ Dispatched("X")
              => currentMode' = "IDLE" /\ tx' = <<<<"Mode: IDLE (Stopped)", 0>>>>
         ]_vars

\* back to IDLE by 'X' from TRIGGER, with an object in the beam
C5_Witness ==
    /\ currentMode = "IDLE"
    /\ tx = <<<<"Mode: IDLE (Stopped)", 0>>>>
    /\ beamIsBroken
    /\ sent = 2

----------------------------------------------------------------------------
(* C6: when 'X' is dispatched during a run-out the dispatch prints the     *)
(* mode confirmation only, handleStepper is the next handler to run, and   *)
(* it disables the motor, whatever was left of the run-out; it prints no   *)
(* line but the periodic status.                                           *)
C6_AbandonRunOut ==
    /\ abandoned = "dispatched"
          => /\ pc = "handleStepper"
             /\ tx = <<LineMode("IDLE")>>
    /\ abandoned = "evaluated"
          => /\ pc = "checkIrSensor"
             /\ enaPin = "HIGH"
             /\ tx \in {<<>>, <<LineStatus("IDLE", FALSE)>>}

\* the evaluation after an 'X' that cut a run-out short
C6_Witness ==
    /\ abandoned = "evaluated"
    /\ tCleared >= 0
    /\ nowMs - tCleared < runOutDuration
    /\ nowMs - tCleared > 0

----------------------------------------------------------------------------
(* C7 as stated: a 'C', 'T' or 'X' dispatched in another mode leaves       *)
(* motorActiveForTrigger and inRunOutPhase false.                          *)
C7_AsStated ==
    [][ \A c \in {"C", "T", "X"} :
           (Dispatched(c) /\ ModeOf(c) # currentMode)
               => ~motorActiveForTrigger' /\ ~inRunOutPhase' ]_vars

(* C7 amended: 'T' and 'X' leave both flags false, from any mode; 'C'      *)
(* leaves both flags as they were.                                         *)
C7_ResetOnTX ==
    [][ /\ (Dispatched("T") \/ Dispatched("X"))
              => ~motorActiveForTrigger' /\ ~inRunOutPhase'
        /\ Dispatched("C")
              => UNCHANGED <<motorActiveForTrigger, inRunOutPhase>> ]_vars

\* an 'X' has just cleared the flags of a run-out
C7_Witness ==
    /\ abandoned = "dispatched"
    /\ ~motorActiveForTrigger
    /\ ~inRunOutPhase

----------------------------------------------------------------------------
----------------------------------------------------------------------------
\* the state a gate command must not touch
triggerAndSensorState ==
    <<currentMode, motorActiveForTrigger, inRunOutPhase, runOutStartTime,
      lastStableIrState, lastFlickerIrState, lastStateChangeTime,
      beamBrokenStartTime, beamIsBroken>>

\* every global of the sketch, and the lines it drives
sketchState ==
    <<triggerAndSensorState, lastStepTime, stepState, lastStatusTime,
      gateServo, servo, enaPin, stepPin>>

\* checkSerialCommands reads a byte
ReadsByte == pc = "checkSerialCommands" /\ pc' # pc /\ rx # <<>>

\* delay() returns
GateReturned == pc = "delay" /\ pc' # "delay"

(* C11: in every mode a dispatched '1', '2' or '3' moves its gate to 45,   *)
(* 90, 135 degrees and holds it; neither the dispatch nor the return of    *)
(* the gate changes the mode, the trigger flags, runOutStartTime or the    *)
(* sensor and beam state, and neither prints a line.                       *)
C11_GateFrame ==
    [][ /\ Dispatched("1") => pc' = "delay" /\ servo' = <<45, 0, 0>>
        /\ Dispatched("2") => pc' = "delay" /\ servo' = <<0, 90, 0>>
        /\ Dispatched("3") => pc' = "delay" /\ servo' = <<0, 0, 135>>
        /\ (Dispatched("1") \/ Dispatched("2") \/ Dispatched("3") \/ GateReturned)
              => /\ UNCHANGED triggerAndSensorState
                 /\ tx' = <<>> ]_vars

\* a gate is held in TRIGGER mode while a run-out is in progress
C11_Witness ==
    /\ pc = "delay"
    /\ currentMode = "TRIGGER"
    /\ inRunOutPhase
    /\ motorActiveForTrigger

----------------------------------------------------------------------------
(* C12: the dispatch of a byte that is none of '1', '2', '3', 'C', 'T',    *)
(* 'X' (such as 'Z', 'c', 't', 'x') takes the byte out of the receive      *)
(* buffer, prints nothing and changes no global of the sketch and no       *)
(* output line; the loop goes on with handleStepper.                       *)
C12_UnknownByte ==
    [][ (ReadsByte /\ Head(rx) \notin {"1", "2", "3", "C", "T", "X"})
            => /\ rx' = Tail(rx)
               /\ tx' = <<>>
               /\ pc' = "handleStepper"
               /\ UNCHANGED sketchState ]_vars

\* a lower-case 't' was read during a run-out
C12_Witness ==
    /\ lastRead = <<"t", 1>>
    /\ currentMode = "TRIGGER"
    /\ inRunOutPhase
    /\ pc = "handleStepper"

----------------------------------------------------------------------------
----------------------------------------------------------------------------
(* C14: a gate is away from home only inside delay().  While it is, no     *)
(* sample is taken, no transition is accepted, nothing is printed, the     *)
(* step phase and both stepper lines stay as they are and no byte is read: *)
(* the receive buffer only grows at its end.  The hold ends only by the    *)
(* gate going home after holdDuration; every byte is read with all gates   *)
(* at home, and it is the oldest byte waiting.                             *)
C14_GateBlocks ==
    [][ /\ servo # <<0, 0, 0>> => pc = "delay"
        /\ pc = "delay"
              => /\ UNCHANGED <<triggerAndSensorState, lastStepTime, stepState,
                                lastStatusTime, enaPin, stepPin>>
                 /\ UNCHANGED <<lastSampleAt, events>>
                 /\ tx' = <<>>
                 /\ Len(rx') >= Len(rx)
                 /\ SubSeq(rx', 1, Len(rx)) = rx
                 /\ \/ pc' = "delay" /\ UNCHANGED <<servo, clock>>
                    \/ /\ pc' = "handleStepper"
                       /\ servo' = <<0, 0, 0>>
                       /\ clock' - gateLeftAt = 1000 * UsPerMs
        /\ ReadsByte => /\ servo = <<0, 0, 0>>
                        /\ lastRead'[1] = Head(rx)
                        /\ rx' = Tail(rx) ]_vars

\* the gate is home again and a byte that arrived during the hold is waiting
C14_Witness ==
    /\ pc = "handleStepper"
    /\ lastRead = <<"1", 1>>
    /\ lastHold = 1000 * UsPerMs
    /\ servo = <<0, 0, 0>>
    /\ rx = <<"X">>

----------------------------------------------------------------------------
(* C15: the receive buffer shrinks only in checkSerialCommands, by its     *)
(* oldest byte alone, and the loop then leaves checkSerialCommands for the *)
(* next iteration (or for the gate hold): of k bytes waiting, one is       *)
(* dispatched and the k-1 others stay, in order.                           *)
C15_OneBytePerIteration ==
    [][ /\ Len(rx') < Len(rx)
              => /\ pc = "checkSerialCommands"
                 /\ pc' \in {"handleStepper", "delay"}
                 /\ Len(rx') = Len(rx) - 1
                 /\ \A i \in 1..Len(rx') : rx'[i] = rx[i + 1]
        /\ (pc = "checkSerialCommands" /\ pc' # pc)
              => Len(rx') = IF rx = <<>> THEN 0 ELSE Len(rx) - 1 ]_vars

\* 'C' was dispatched with two bytes waiting; the 'T' behind it still waits
C15_Witness ==
    /\ pc = "handleStepper"
    /\ lastRead = <<"C", 2>>
    /\ currentMode = "CONTINUOUS"
    /\ rx = <<"T">>

----------------------------------------------------------------------------
\* true time of the latest flip, or of boot when there was none
flipOrBoot == IF tFlip = -1 THEN 0 ELSE tFlip

(* C16: stepState changes only in an evaluation of handleStepper that      *)
(* leaves the motor enabled, at least stepInterval (500 us) of true time   *)
(* after the flip before it (after boot for the first); the step line then *)
(* shows the new phase.  An evaluation that finds the motor at rest, as    *)
(* every evaluation in IDLE does, and every other handler leave stepState, *)
(* lastStepTime and the step line as they are.                             *)
C16_StepInterval ==
    [][ /\ stepState' # stepState
              => /\ StepperRan
                 /\ enaPin' = "LOW"
                 /\ clock - flipOrBoot >= 500
                 /\ stepPin' = IF stepState' THEN "HIGH" ELSE "LOW"
        /\ (~StepperRan \/ enaPin' = "HIGH" \/ currentMode = "IDLE")
              => UNCHANGED <<stepState, lastStepTime, stepPin>> ]_vars

\* the second flip, stepInterval after the first
C16_Witness ==
    /\ pc = "checkIrSensor"
    /\ tFlip = clock
    /\ ~stepState
    /\ stepPin = "LOW"
    /\ micros - lastStepTime = 0
    /\ tFlip = 3 * 500 - 2

----------------------------------------------------------------------------
\* true times, in ms, of the values of lastStateChangeTime (after the sample)
\* and runOutStartTime
changeAtMs == sampleRunStart \div UsPerMs
runOutAtMs == tCleared

(* C17: whenever the true time elapsed since the earlier instant is less   *)
(* than the period of the counter, each test decides as the true elapsed   *)
(* time does, whether or not the counter wrapped in between: the sample    *)
(* accepts a level iff it differs from the stable one and more than        *)
(* debounceDelay has elapsed; the run-out goes on iff less than            *)
(* runOutDuration has elapsed; the enabled stepper flips iff at least      *)
(* stepInterval has elapsed; "L:" reports the true duration.               *)
C17_WrapSafe ==
    [][ /\ (SensorRan /\ nowMs - changeAtMs' < TimerWrap)
              => ((lastStableIrState' # lastStableIrState)
                    <=> /\ nowMs - changeAtMs' > 50
                        /\ lastFlickerIrState' # lastStableIrState)
        /\ (SensorRan /\ tx' # <<>> /\ tx'[1][1] = "L:"
               /\ nowMs - tInterrupted < TimerWrap)
              => tx'[1][2] = nowMs - tInterrupted
        /\ (StepperRan /\ currentMode = "TRIGGER" /\ inRunOutPhase
               /\ nowMs - runOutAtMs < TimerWrap)
              => /\ inRunOutPhase' <=> (nowMs - runOutAtMs < 7000)
                 /\ (enaPin' = "LOW") <=> (nowMs - runOutAtMs < 7000)
        /\ (StepperRan /\ enaPin' = "LOW" /\ clock - flipOrBoot < TimerWrap)
              => ((stepState' # stepState) <=> (clock - flipOrBoot >= 500)) ]_vars

\* a run-out that began before millis() wrapped was ended after the wrap,
\* less than a period later
C17_Witness ==
    /\ pc = "checkIrSensor"
    /\ currentMode = "TRIGGER"
    /\ armed
    /\ tCleared >= 0
    /\ tCleared < TimerWrap
    /\ nowMs >= TimerWrap
    /\ nowMs - tCleared < TimerWrap
    /\ millis < runOutStartTime
    /\ ~inRunOutPhase
    /\ enaPin = "HIGH"

----------------------------------------------------------------------------
(* C18: in TRIGGER mode the sample that accepts an Interrupted transition  *)
(* leaves inRunOutPhase false and motorActiveForTrigger true, also when a  *)
(* run-out was in progress, and the evaluation that follows keeps the      *)
(* motor enabled; the sample that accepts the next Cleared transition      *)
(* starts a run-out at its own time, the latest Cleared, and the run-out   *)
(* is still on after an evaluation only within runOutDuration of it.       *)
C18_RunOutRestart ==
    /\ (pc = "checkSerialCommands" /\ currentMode = "TRIGGER" /\ tx = <<LineB>>)
          => motorActiveForTrigger /\ ~inRunOutPhase
    /\ (pc = "checkIrSensor" /\ currentMode = "TRIGGER"
           /\ motorActiveForTrigger /\ ~inRunOutPhase)
          => enaPin = "LOW"
    /\ (pc = "checkSerialCommands" /\ currentMode = "TRIGGER"
           /\ motorActiveForTrigger /\ tx # <<>> /\ tx[1][1] = "L:")
          => /\ inRunOutPhase
             /\ runOutStartTime = millis
             /\ tCleared = nowMs
    /\ (currentMode = "TRIGGER" /\ inRunOutPhase)
          => /\ tCleared > tInterrupted
             /\ runOutStartTime = tCleared % TimerWrap
             /\ pc = "checkIrSensor" => nowMs - tCleared < 7000

\* an Interrupted transition was just accepted while a run-out kept the motor
\* running
C18_Witness ==
    /\ pc = "checkSerialCommands"
    /\ currentMode = "TRIGGER"
    /\ tx = <<LineB>>
    /\ enaPin = "LOW"
    /\ runOutStartTime > 0
    /\ lastAccept = "Interrupted"
    /\ Len(events) = 3

----------------------------------------------------------------------------
\* a run-out is in progress
RunOutOn == currentMode = "TRIGGER" /\ inRunOutPhase

\* the run-out of the latest object was ended by handleStepper: no mode
\* command and no Interrupted transition has reset or set the flags since
RunOutEnded == armed /\ ~inRunOutPhase /\ ~motorActiveForTrigger

(* C19 as stated: a run-out in progress leads to its end by an evaluation  *)
(* of handleStepper, unless an Interrupted transition is accepted first.   *)
C19_AsStated ==
    RunOutOn ~> (RunOutEnded \/ lastStableIrState = "LOW")

(* C19 amended: a run-out in progress leads to its end by an evaluation of *)
(* handleStepper, unless an Interrupted transition is accepted or a mode   *)
(* command is dispatched first.  The evaluation that ends it runs at least *)
(* runOutDuration after the Cleared transition, clears both flags and      *)
(* disables the motor, and every evaluation after it leaves the motor      *)
(* disabled until an Interrupted transition or a mode command.             *)
C19_RunOutEnds ==
    /\ RunOutOn ~> (RunOutEnded \/ lastStableIrState = "LOW" \/ ~armed)
    /\ [][ (StepperRan /\ RunOutOn /\ ~inRunOutPhase')
              => /\ nowMs - tCleared >= 7000
                 /\ ~motorActiveForTrigger'
                 /\ enaPin' = "HIGH" ]_vars
    /\ []((pc = "checkIrSensor" /\ RunOutEnded) => enaPin = "HIGH")

\* handleStepper has ended a run-out, in a run in which a gate was held
C19_Witness ==
    /\ pc = "checkIrSensor"
    /\ RunOutEnded
    /\ currentMode = "TRIGGER"
    /\ tCleared >= 0
    /\ nowMs - tCleared >= 7000
    /\ lastHold > 0
    /\ gateLeftAt = -1
    /\ enaPin = "HIGH"

----------------------------------------------------------------------------
(* C20: in every reachable state inRunOutPhase implies                     *)
(* motorActiveForTrigger, in every mode and at every point of the loop.    *)
C20_RunOutImpliesMotor ==
    inRunOutPhase => motorActiveForTrigger

\* 'C' was dispatched during a run-out: both flags are still set
C20_Witness ==
    /\ currentMode = "CONTINUOUS"
    /\ lastRead = <<"C", 1>>
    /\ inRunOutPhase
    /\ motorActiveForTrigger

----------------------------------------------------------------------------
\* shouldBeActive as handleStepper would compute it in this state
shouldRun ==
    ShouldBeActive(currentMode, inRunOutPhase, motorActiveForTrigger,
                   millis, runOutStartTime)

(* C21: in every reachable state in TRIGGER mode, if the motor should run  *)
(* then the beam is stably broken or a run-out is in progress; and when    *)
(* handleStepper has just enabled the motor, the beam is stably broken or  *)
(* the run-out in progress began less than runOutDuration before that      *)
(* evaluation.                                                             *)
C21_MotorOnlyForObject ==
    currentMode = "TRIGGER"
        => /\ shouldRun => (beamIsBroken \/ inRunOutPhase)
           /\ (pc = "checkIrSensor" /\ enaPin = "LOW")
                 => \/ beamIsBroken
                    \/ inRunOutPhase /\ nowMs - tCleared < 7000

\* the motor was just enabled for a run-out: the object has left the beam
C21_Witness ==
    /\ pc = "checkIrSensor"
    /\ currentMode = "TRIGGER"
    /\ enaPin = "LOW"
    /\ ~beamIsBroken
    /\ inRunOutPhase
    /\ nowMs > tCleared

----------------------------------------------------------------------------
\* the sample accepts a transition to the given level
Accepts(level) ==
    SensorRan /\ lastStableIrState # level /\ lastStableIrState' = level

(* C22: a 'T' dispatched while the beam is stably broken leaves            *)
(* motorActiveForTrigger and inRunOutPhase false.  From then on, in        *)
(* TRIGGER mode, only an accepted Interrupted transition sets              *)
(* motorActiveForTrigger; until then every evaluation leaves the motor     *)
(* disabled, and the accepted Cleared transition of the object prints its  *)
(* "L:" line, starts no run-out and leaves runOutStartTime as it was.      *)
C22_EnterTriggerBeamBroken ==
    [][ /\ (Dispatched("T") /\ beamIsBroken)
              => /\ currentMode' = "TRIGGER"
                 /\ ~motorActiveForTrigger' /\ ~inRunOutPhase'
                 /\ beamIsBroken'
        /\ (currentMode = "TRIGGER" /\ ~motorActiveForTrigger
               /\ motorActiveForTrigger')
              => Accepts("LOW")
        /\ (StepperRan /\ currentMode = "TRIGGER" /\ ~motorActiveForTrigger)
              => enaPin' = "HIGH"
        /\ (currentMode = "TRIGGER" /\ ~inRunOutPhase /\ inRunOutPhase')
              => Accepts("HIGH") /\ motorActiveForTrigger
        /\ (Accepts("HIGH") /\ currentMode = "TRIGGER" /\ ~motorActiveForTrigger)
              => /\ tx' = <<LineL((nowMs - tInterrupted) % TimerWrap)>>
                 /\ ~inRunOutPhase' /\ ~motorActiveForTrigger'
                 /\ UNCHANGED <<runOutStartTime, enaPin>> ]_vars

\* the object that was in the beam when 'T' was dispatched has left: its
\* "L:" line is printed and no run-out is in progress
C22_Witness ==
    /\ pc = "checkSerialCommands"
    /\ currentMode = "TRIGGER"
    /\ tx # <<>>
    /\ tx[1][1] = "L:"
    /\ ~inRunOutPhase
    /\ ~motorActiveForTrigger
    /\ enaPin = "HIGH"

----------------------------------------------------------------------------
(* C23: in every mode an accepted Interrupted transition prints "B" and an *)
(* accepted Cleared transition prints "L:" with the duration; outside      *)
(* TRIGGER mode an accepted transition leaves motorActiveForTrigger,       *)
(* inRunOutPhase and runOutStartTime as they were.                         *)
C23_ReportingAnyMode ==
    [][ /\ Accepts("LOW") => tx' = <<LineB>>
        /\ Accepts("HIGH")
              => tx' = <<LineL((nowMs - tInterrupted) % TimerWrap)>>
        /\ ((Accepts("LOW") \/ Accepts("HIGH")) /\ currentMode # "TRIGGER")
              => UNCHANGED <<motorActiveForTrigger, inRunOutPhase,
                             runOutStartTime>> ]_vars

\* a Cleared transition was accepted in CONTINUOUS mode while
\* motorActiveForTrigger was still set: "L:" is printed, no run-out began
C23_Witness ==
    /\ pc = "checkSerialCommands"
    /\ currentMode = "CONTINUOUS"
    /\ tx # <<>>
    /\ tx[1][1] = "L:"
    /\ motorActiveForTrigger
    /\ ~inRunOutPhase
====
